---- MODULE Spec2Model ----
(***************************************************************************)
(* State-machine model of the two request pipelines of the repository:     *)
(*   - POST /api/v1/images   generateImage -> saveImage -> makeThumbnail   *)
(*                           -> respondWithImage   (imageController.ts)    *)
(*   - POST /api/v1/comments commentPost           (commentController.ts)  *)
(* Handlers run on one event loop: a handler runs to its next await without *)
(* interleaving (variable running), and next() enters the following handler *)
(* of the route synchronously.                                              *)
(***************************************************************************)
EXTENDS Integers, Sequences, FiniteSets, TLC

VARIABLES
    env,        \* process.env: [key, url], presence of OPENAI_API_KEY / OPENAI_API_URL
    now,        \* value of Date.now() (milliseconds)
    running,    \* the request whose handler code holds the event loop, or None
    dirExists,  \* the uploads directory exists
    disk,       \* files of the uploads directory: set of [name, content]
    pc,         \* per image request: the handler or await it is at
    body,       \* per image request: req.body.topic
    locals,     \* per image request: res.locals [url, b64, file, thumb]
    imageName,  \* per image request: saveImage's local imageName
    log,        \* per image request: what the handlers did, in order
    sent,       \* per image request: the body given to res.json, if any
    cpc,        \* comment request: where commentPost is
    cbody,      \* comment request: req.body [text, temperature, max_tokens]
    clog,       \* comment request: what commentPost did, in order
    cpayload,   \* comment request: requestPayload of the fetchData call
    cgot,       \* comment request: what the fetchData call settled with
    csent       \* comment request: the body given to res.json, if any

ivars == <<now, running, dirExists, disk, pc, body, locals, imageName, log, sent>>
cvars == <<cpc, cbody, clog, cpayload, cgot, csent>>
vars == <<env, now, running, dirExists, disk, pc, body, locals, imageName, log, sent,
          cpc, cbody, clog, cpayload, cgot, csent>>

(***************************************************************************)
(* Bounds and value universes                                              *)
(***************************************************************************)
MaxClock == 1

ImageReqs == {"r1", "r2"}
None == "none"
Undefined == "<undefined>"

\* JavaScript values a request body field can hold: [t |-> typeof, s |-> characters]
JsUndefined == [t |-> "undefined", s |-> <<>>]
JsString(chars) == [t |-> "string", s |-> chars]
JsNumber(digits) == [t |-> "number", s |-> digits]

TopicInputs == {JsUndefined, JsString(<<>>), JsNumber(<<"7">>), JsString(<<"U", "p", "!">>)}

\* JavaScript truthiness of such a value
Truthy(v) ==
    CASE v.t = "undefined" -> FALSE
      [] v.t = "string" -> v.s # <<>>
      [] v.t = "number" -> v.s # <<"0">>
      [] OTHER -> TRUE

\* truthiness of an optional string held as Undefined or a string
TruthyStr(x) == x # Undefined /\ x # ""

NoName == [prefix |-> "", base |-> <<>>, ts |-> 0 - 1]
NoLocals == [url |-> Undefined, b64 |-> Undefined, file |-> NoName, thumb |-> NoName]
NoBody == [file |-> NoName, thumb |-> NoName, url |-> "<nothing sent>"]

Ev(e, stage, code) == [ev |-> e, at |-> stage, code |-> code]

RECURSIVE CountEv(_, _)
CountEv(s, e) ==
    IF s = <<>> THEN 0
    ELSE (IF Head(s).ev = e THEN 1 ELSE 0) + CountEv(Tail(s), e)

RECURSIVE CountAt(_, _, _)
CountAt(s, e, stage) ==
    IF s = <<>> THEN 0
    ELSE (IF Head(s).ev = e /\ Head(s).at = stage THEN 1 ELSE 0) + CountAt(Tail(s), e, stage)

HasEv(s, e) == \E i \in 1..Len(s) : s[i].ev = e

(***************************************************************************)
(* The route: handlers in registration order                               *)
(***************************************************************************)
PipelineSwapped == <<"generateImage", "makeThumbnail", "saveImage", "respondWithImage">>

Pipeline == <<"generateImage", "saveImage", "makeThumbnail", "respondWithImage">>

\* next(): the handler registered after `stage`
Following(stage) ==
    LET i == CHOOSE k \in 1..Len(Pipeline) : Pipeline[k] = stage
    IN  IF i < Len(Pipeline) THEN Pipeline[i + 1] ELSE "done"

(***************************************************************************)
(* generateImage                                                           *)
(***************************************************************************)
TopicMissingTypeOnly(topic) == topic.t # "string"

\* if (!topic || typeof topic !== 'string')
TopicMissing(topic) == ~Truthy(topic) \/ topic.t # "string"

StrategyUrlFirst(e) ==
    IF e.url THEN "proxy" ELSE IF e.key THEN "sdk" ELSE "none"

\* if (process.env.OPENAI_API_KEY) ... if (process.env.OPENAI_API_URL) ... else error
Strategy(e) ==
    IF e.key THEN "sdk" ELSE IF e.url THEN "proxy" ELSE "none"

\* what the provider call can settle with: a throw, or a response whose data is
\* missing, empty, or holds one item with optional url / b64_json
Items == [url : {Undefined, "", "https://img"}, b64_json : {Undefined, "QUJD"}]
ProviderOutcomes ==
    {[throws |-> TRUE, data |-> <<>>], [throws |-> FALSE, data |-> <<>>]}
    \cup {[throws |-> FALSE, data |-> <<it>>] : it \in Items}

HandOverBoth(item, l) ==
    LET l1 == IF TruthyStr(item.url) THEN [l EXCEPT !.url = item.url] ELSE l
    IN  IF TruthyStr(item.b64_json) THEN [l1 EXCEPT !.b64 = item.b64_json] ELSE l1

\* if (item.url) res.locals.url = ... else if (item.b64_json) res.locals.b64 = ...
HandOver(item, l) ==
    IF TruthyStr(item.url) THEN [l EXCEPT !.url = item.url]
    ELSE IF TruthyStr(item.b64_json) THEN [l EXCEPT !.b64 = item.b64_json]
    ELSE l

\* the item has neither url nor b64_json
NoImageData(item) == ~TruthyStr(item.url) /\ ~TruthyStr(item.b64_json)

(***************************************************************************)
(* Handing control on: next(), next(err), await                            *)
(***************************************************************************)
\* next(): the following handler is entered synchronously
NextOk(r, stage, pre) ==
    /\ log' = [log EXCEPT ![r] = @ \o pre \o <<Ev("next", stage, 0)>>]
    /\ pc' = [pc EXCEPT ![r] = Following(stage)]
    /\ running' = r

\* next(err): the remaining handlers are skipped, the error handler takes over.
\* code is the CustomError status, 0 for a thrown error that carries none
NextErr(r, stage, code, pre) ==
    /\ log' = [log EXCEPT ![r] = @ \o pre \o <<Ev("error", stage, code)>>]
    /\ pc' = [pc EXCEPT ![r] = "done"]
    /\ running' = None

\* await: the handler is suspended and the event loop is free
Await(r, label, pre) ==
    /\ log' = [log EXCEPT ![r] = @ \o pre]
    /\ pc' = [pc EXCEPT ![r] = label]
    /\ running' = None

(***************************************************************************)
(* Image pipeline actions                                                  *)
(***************************************************************************)
\* a request arrives and the route enters its first handler
Receive(r, topic) ==
    /\ running = None
    /\ pc[r] = "idle"
    /\ pc' = [pc EXCEPT ![r] = Pipeline[1]]
    /\ body' = [body EXCEPT ![r] = topic]
    /\ running' = r
    /\ UNCHANGED <<env, now, dirExists, disk, locals, imageName, log, sent, cvars>>

\* generateImage up to its await (or its early return)
GenerateImage(r) ==
    /\ running = r
    /\ pc[r] = "generateImage"
    /\ LET enter == <<Ev("enter", "generateImage", 0)>>
       IN  IF TopicMissing(body[r])
           THEN NextErr(r, "generateImage", 400, enter)
           ELSE CASE Strategy(env) = "sdk" ->
                       Await(r, "awaitSdk", enter \o <<Ev("sdk", "generateImage", 0)>>)
                  [] Strategy(env) = "proxy" ->
                       Await(r, "awaitProxy", enter \o <<Ev("fetchData", "generateImage", 0)>>)
                  [] OTHER ->
                       NextErr(r, "generateImage", 500, enter)
    /\ UNCHANGED <<env, now, dirExists, disk, body, locals, imageName, sent, cvars>>

\* the code after either provider call: item checks, hand-over, next()
AfterProvider(r, out) ==
    IF out.throws
    THEN /\ NextErr(r, "generateImage", 0, <<>>)
         /\ UNCHANGED locals
    ELSE IF out.data = <<>>
    THEN /\ NextErr(r, "generateImage", 500, <<Ev("noData", "generateImage", 0)>>)
         /\ UNCHANGED locals
    ELSE IF NoImageData(out.data[1])
    THEN /\ NextErr(r, "generateImage", 500, <<Ev("noImageData", "generateImage", 0)>>)
         /\ UNCHANGED locals
    ELSE /\ locals' = [locals EXCEPT ![r] = HandOver(out.data[1], @)]
         /\ NextOk(r, "generateImage", <<>>)

\* client.images.generate settles
SdkSettles(r, out) ==
    /\ running = None
    /\ pc[r] = "awaitSdk"
    /\ AfterProvider(r, out)
    /\ UNCHANGED <<env, now, dirExists, disk, body, imageName, sent, cvars>>

\* fetchData(.../v1/images/generations) settles
ProxySettles(r, out) ==
    /\ running = None
    /\ pc[r] = "awaitProxy"
    /\ AfterProvider(r, out)
    /\ UNCHANGED <<env, now, dirExists, disk, body, imageName, sent, cvars>>

(***************************************************************************)
(* saveImage                                                               *)
(***************************************************************************)
LowerLetters == <<"a", "b", "c", "d", "e", "f", "g", "h", "i", "j", "k", "l", "m",
                  "n", "o", "p", "q", "r", "s", "t", "u", "v", "w", "x", "y", "z">>
UpperLetters == <<"A", "B", "C", "D", "E", "F", "G", "H", "I", "J", "K", "L", "M",
                  "N", "O", "P", "Q", "R", "S", "T", "U", "V", "W", "X", "Y", "Z">>
Digits == {"0", "1", "2", "3", "4", "5", "6", "7", "8", "9"}

\* String.prototype.toLowerCase on one character
ToLower(c) ==
    IF \E i \in 1..Len(UpperLetters) : UpperLetters[i] = c
    THEN LowerLetters[CHOOSE i \in 1..Len(UpperLetters) : UpperLetters[i] = c]
    ELSE c

\* the character is outside /[^a-z0-9-_]/gi, so replace() keeps it
Kept(c) ==
    \/ \E i \in 1..Len(LowerLetters) : LowerLetters[i] = c \/ UpperLetters[i] = c
    \/ c \in Digits
    \/ c \in {"-", "_"}

\* (topic || 'image').replace(/[^a-z0-9-_]/gi, '_').toLowerCase()
BaseName(topic) ==
    LET chars == IF Truthy(topic) THEN topic.s ELSE <<"i", "m", "a", "g", "e">>
    IN  [i \in 1..Len(chars) |-> ToLower(IF Kept(chars[i]) THEN chars[i] ELSE "_")]

\* `${baseName}_${timestamp}.png`
ImageNameOf(topic, timestamp) == [prefix |-> "", base |-> BaseName(topic), ts |-> timestamp]

\* `thumb_${fileName}`
ThumbNameOf(fileName) == [fileName EXCEPT !.prefix = "thumb_"]

Names(d) == {f.name : f \in d}
\* a write with flag 'w': the file is created or replaced
Write(d, name, content) == {f \in d : f.name # name} \cup {[name |-> name, content |-> content]}
Unlink(d, name) == {f \in d : f.name # name}

HttpStatuses == {200, 302, 404}

\* if (response.statusCode && response.statusCode >= 400) reject(...)
DownloadRejects(statusCode) == statusCode # 0 /\ statusCode >= 400

\* saveImage up to its await (or its return)
SaveImage(r, mkdirOk, writeOk) ==
    /\ running = r
    /\ pc[r] = "saveImage"
    /\ LET enter == <<Ev("enter", "saveImage", 0)>>
           name == ImageNameOf(body[r], now)
       IN  IF ~dirExists /\ ~mkdirOk
           THEN \* fs.mkdirSync throws
                /\ NextErr(r, "saveImage", 0, enter \o <<Ev("mkdirFailed", "saveImage", 0)>>)
                /\ UNCHANGED <<dirExists, disk, locals, imageName>>
           ELSE /\ dirExists' = TRUE
                /\ imageName' = [imageName EXCEPT ![r] = name]
                /\ IF TruthyStr(locals[r].b64)
                   THEN IF writeOk
                        THEN /\ disk' = Write(disk, name, [by |-> r, data |-> "decoded"])
                             /\ locals' = [locals EXCEPT ![r].file = name]
                             /\ NextOk(r, "saveImage", enter \o <<Ev("b64write", "saveImage", 0)>>)
                        ELSE \* fs.writeFileSync throws
                             /\ NextErr(r, "saveImage", 0, enter \o <<Ev("b64write", "saveImage", 0)>>)
                             /\ UNCHANGED <<disk, locals>>
                   ELSE IF ~TruthyStr(locals[r].url)
                   THEN /\ NextErr(r, "saveImage", 500, enter)
                        /\ UNCHANGED <<disk, locals>>
                   ELSE \* fs.createWriteStream(imagePath); https.get(imageUrl, ...)
                        /\ disk' = Write(disk, name, [by |-> r, data |-> "empty"])
                        /\ Await(r, "awaitDownload", enter \o <<Ev("download", "saveImage", 0)>>)
                        /\ UNCHANGED locals
    /\ UNCHANGED <<env, now, body, sent, cvars>>

\* the https.get callback runs with the response
DownloadResponse(r, statusCode) ==
    /\ running = None
    /\ pc[r] = "awaitDownload"
    /\ IF DownloadRejects(statusCode)
       THEN NextErr(r, "saveImage", 0, <<Ev("downloadFailed", "saveImage", statusCode)>>)
       ELSE Await(r, "piping", <<Ev("piped", "saveImage", statusCode)>>)
    /\ UNCHANGED <<env, now, dirExists, disk, body, locals, imageName, sent, cvars>>

\* fileStream 'finish': resolve(), then res.locals.file = imageName; next()
FileStreamFinish(r) ==
    /\ running = None
    /\ pc[r] = "piping"
    /\ disk' = Write(disk, imageName[r], [by |-> r, data |-> "body"])
    /\ locals' = [locals EXCEPT ![r].file = imageName[r]]
    /\ NextOk(r, "saveImage", <<>>)
    /\ UNCHANGED <<env, now, dirExists, body, imageName, sent, cvars>>

\* the request's 'error' event: unlinkSync in a try/catch, then reject(err)
RequestError(r, unlinkOk) ==
    /\ running = None
    /\ pc[r] = "awaitDownload"
    /\ disk' = IF unlinkOk THEN Unlink(disk, imageName[r]) ELSE disk
    /\ NextErr(r, "saveImage", 0,
               <<Ev("downloadFailed", "saveImage", 0)>>
               \o (IF unlinkOk THEN <<>> ELSE <<Ev("unlinkFailed", "saveImage", 0)>>))
    /\ UNCHANGED <<env, now, dirExists, body, locals, imageName, sent, cvars>>

(***************************************************************************)
(* makeThumbnail, respondWithImage                                         *)
(***************************************************************************)
\* the imported sharp module; `if (!sharp)` guards the transform
sharp == TRUE

CatchThumbnailPropagates(r, pre) == NextErr(r, "makeThumbnail", 0, pre)

\* catch (error) { console.error(...); next(); }
CatchThumbnail(r, pre) == NextOk(r, "makeThumbnail", pre)

\* makeThumbnail up to its await (or its early return)
MakeThumbnail(r) ==
    /\ running = r
    /\ pc[r] = "makeThumbnail"
    /\ LET enter == <<Ev("enter", "makeThumbnail", 0)>>
       IN  IF locals[r].file = NoName \/ ~sharp
           THEN NextOk(r, "makeThumbnail", enter)
           ELSE Await(r, "awaitSharp", enter \o <<Ev("sharp", "makeThumbnail", 0)>>)
    /\ UNCHANGED <<env, now, dirExists, disk, body, locals, imageName, sent, cvars>>

\* sharp(filePath).resize(320, 180).png().toFile(thumbPath) settles; it can only
\* succeed when the source file is there to read
SharpSettles(r, ok) ==
    /\ running = None
    /\ pc[r] = "awaitSharp"
    /\ ok => locals[r].file \in Names(disk)
    /\ IF ok
       THEN /\ disk' = Write(disk, ThumbNameOf(locals[r].file), [by |-> r, data |-> "thumb"])
            /\ locals' = [locals EXCEPT ![r].thumb = ThumbNameOf(locals[r].file)]
            /\ NextOk(r, "makeThumbnail", <<>>)
       ELSE /\ CatchThumbnail(r, <<Ev("thumbFailed", "makeThumbnail", 0)>>)
            /\ UNCHANGED <<disk, locals>>
    /\ UNCHANGED <<env, now, dirExists, body, imageName, sent, cvars>>

\* res.json({file, thumb, url})
RespondWithImage(r) ==
    /\ running = r
    /\ pc[r] = "respondWithImage"
    /\ sent' = [sent EXCEPT ![r] = [file |-> locals[r].file, thumb |-> locals[r].thumb,
                                    url |-> locals[r].url]]
    /\ log' = [log EXCEPT ![r] = @ \o <<Ev("enter", "respondWithImage", 0),
                                        Ev("json", "respondWithImage", 200)>>]
    /\ pc' = [pc EXCEPT ![r] = "done"]
    /\ running' = None
    /\ UNCHANGED <<env, now, dirExists, disk, body, locals, imageName, cvars>>

\* the clock advances
Tick ==
    /\ now < MaxClock
    /\ now' = now + 1
    /\ UNCHANGED <<env, running, dirExists, disk, pc, body, locals, imageName, log, sent, cvars>>

(***************************************************************************)
(* commentPost                                                             *)
(***************************************************************************)
\* temperature is held in tenths: 7 stands for 0.7
DefaultTemperature == 7
DefaultMaxTokens == 150

\* req.body fields; an optional field is <<>> when omitted, <<v>> when given
TextInputs == {JsUndefined, JsString(<<>>), JsNumber(<<"7">>), JsString(<<"H", "i">>)}
TemperatureInputs == {<<>>, <<0>>, <<12>>, <<20>>}
MaxTokensInputs == {<<>>, <<1>>, <<2000>>}

\* a destructuring default: used when the field is undefined
OrDefault(opt, d) == IF opt = <<>> THEN d ELSE opt[1]

\* if (!text || typeof text !== 'string')
TextMissing(text) == ~Truthy(text) \/ text.t # "string"

RequestPayloadDefaultsOnly(b) ==
    [temperature |-> DefaultTemperature, max_tokens |-> OrDefault(b.max_tokens, DefaultMaxTokens)]

\* requestPayload = { model, messages, temperature, max_tokens }
RequestPayload(b) ==
    [temperature |-> OrDefault(b.temperature, DefaultTemperature),
     max_tokens |-> OrDefault(b.max_tokens, DefaultMaxTokens)]

\* process.env.OPENAI_API_URL is set (commentPost returns 500 otherwise)
UrlConfigured(e) == e.url

\* what fetchData can settle with: a throw, a nullish body, or a completion whose
\* choices are missing, null or an array of choices [content, text]
Choices == [content : {Undefined, "", "Thanks!"}, text : {Undefined, "legacy"}]
Completions ==
    {[kind |-> "throws", choices |-> "none", items |-> <<>>],
     [kind |-> "nullish", choices |-> "none", items |-> <<>>],
     [kind |-> "object", choices |-> "undefined", items |-> <<>>],
     [kind |-> "object", choices |-> "null", items |-> <<>>],
     [kind |-> "object", choices |-> "array", items |-> <<>>]}
    \cup {[kind |-> "object", choices |-> "array", items |-> <<c>>] : c \in Choices}

NoChoicesMissingOnly(completion) ==
    completion.kind = "nullish" \/ completion.choices # "array"

\* !completion?.choices?.length
NoChoices(completion) ==
    \/ completion.kind = "nullish"
    \/ completion.choices # "array"
    \/ Len(completion.items) = 0

\* completion.choices[0] as any: undefined when the array is empty
FirstChoice(completion) ==
    IF completion.items = <<>> THEN [content |-> Undefined, text |-> Undefined]
    ELSE completion.items[1]

\* choice?.message?.content ?? (typeof choice?.text === 'string' ? choice.text : '') ?? ''
Reply(choice) ==
    IF choice.content # Undefined THEN choice.content
    ELSE IF choice.text # Undefined THEN choice.text
    ELSE ""

\* a comment request arrives
CommentReceive(b) ==
    /\ cpc = "idle"
    /\ cpc' = "commentPost"
    /\ cbody' = b
    /\ UNCHANGED <<env, ivars, clog, cpayload, cgot, csent>>

\* commentPost up to its await (or its early return)
CommentPost ==
    /\ cpc = "commentPost"
    /\ IF TextMissing(cbody.text)
       THEN /\ clog' = clog \o <<Ev("error", "No text provided", 400)>>
            /\ cpc' = "done"
            /\ UNCHANGED cpayload
       ELSE IF ~UrlConfigured(env)
       THEN /\ clog' = clog \o <<Ev("error", "No API url found", 500)>>
            /\ cpc' = "done"
            /\ UNCHANGED cpayload
       ELSE /\ cpayload' = <<RequestPayload(cbody)>>
            /\ clog' = clog \o <<Ev("fetchData", "/v1/chat/completions", 0)>>
            /\ cpc' = "awaitFetch"
    /\ UNCHANGED <<env, ivars, cbody, cgot, csent>>

\* fetchData settles and commentPost runs to its end
CompletionSettles(completion) ==
    /\ cpc = "awaitFetch"
    /\ cpc' = "done"
    /\ cgot' = <<completion>>
    /\ IF completion.kind = "throws"
       THEN /\ clog' = clog \o <<Ev("error", "thrown", 0)>>
            /\ UNCHANGED csent
       ELSE IF NoChoices(completion)
       THEN /\ clog' = clog \o <<Ev("error", "No completion choices returned", 500)>>
            /\ UNCHANGED csent
       ELSE /\ csent' = <<[response |-> Reply(FirstChoice(completion)), raw |-> completion]>>
            /\ clog' = clog \o <<Ev("json", "response", 200)>>
    /\ UNCHANGED <<env, ivars, cbody, cpayload>>

(***************************************************************************)
(* Specifications                                                          *)
(***************************************************************************)
Init ==
    /\ env \in [key : BOOLEAN, url : BOOLEAN]
    /\ now = 0
    /\ running = None
    /\ dirExists \in BOOLEAN
    /\ disk = {}
    /\ pc = [r \in ImageReqs |-> "idle"]
    /\ body = [r \in ImageReqs |-> JsUndefined]
    /\ locals = [r \in ImageReqs |-> NoLocals]
    /\ imageName = [r \in ImageReqs |-> NoName]
    /\ log = [r \in ImageReqs |-> <<>>]
    /\ sent = [r \in ImageReqs |-> NoBody]
    /\ cpc = "idle"
    /\ cbody = [text |-> JsUndefined, temperature |-> <<>>, max_tokens |-> <<>>]
    /\ clog = <<>>
    /\ cpayload = <<>>
    /\ cgot = <<>>
    /\ csent = <<>>

\* what a received image request does next
Step(r) ==
    \/ GenerateImage(r)
    \/ \E out \in ProviderOutcomes : SdkSettles(r, out)
    \/ \E out \in ProviderOutcomes : ProxySettles(r, out)
    \/ \E mkdirOk \in BOOLEAN, writeOk \in BOOLEAN : SaveImage(r, mkdirOk, writeOk)
    \/ \E statusCode \in HttpStatuses : DownloadResponse(r, statusCode)
    \/ FileStreamFinish(r)
    \/ \E unlinkOk \in BOOLEAN : RequestError(r, unlinkOk)
    \/ MakeThumbnail(r)
    \/ \E ok \in BOOLEAN : SharpSettles(r, ok)
    \/ RespondWithImage(r)

Next ==
    \/ \E r \in ImageReqs, topic \in TopicInputs : Receive(r, topic)
    \/ \E r \in ImageReqs : Step(r)
    \/ Tick

Spec == Init /\ [][Next]_vars

\* every awaited operation settles and the event loop runs what is ready
FairSpec == Spec /\ \A r \in ImageReqs : WF_vars(Step(r))

CommentNext ==
    \/ \E b \in [text : TextInputs, temperature : TemperatureInputs,
                 max_tokens : MaxTokensInputs] : CommentReceive(b)
    \/ CommentPost
    \/ \E completion \in Completions : CompletionSettles(completion)

CommentSpec == Init /\ [][CommentNext]_vars

\* one image request and the comment request side by side
BothNext ==
    \/ \E topic \in TopicInputs : Receive("r1", topic)
    \/ Step("r1")
    \/ Tick
    \/ CommentNext

BothSpec == Init /\ [][BothNext]_vars

(***************************************************************************)
(* Properties                                                              *)
(***************************************************************************)
\* the field is absent, empty or not a string
AbsentEmptyOrNotString(v) == v.t # "string" \/ v.s = <<>>

Calls(r) == CountEv(log[r], "sdk") + CountEv(log[r], "fetchData")
Entered(r, stage) == CountAt(log[r], "enter", stage) > 0
ValidTopic(r) == ~AbsentEmptyOrNotString(body[r])

\* C1: a comment request whose text, or an image request whose topic, is absent,
\* empty or not a string is answered by one 400 error handed to next() and makes
\* no provider call (SDK or fetchData), whatever OPENAI_API_KEY / OPENAI_API_URL are.
C1_MissingFieldIs400NoCall ==
    /\ \A r \in ImageReqs :
         (Entered(r, "generateImage") /\ AbsentEmptyOrNotString(body[r])) =>
            /\ log[r] = <<Ev("enter", "generateImage", 0), Ev("error", "generateImage", 400)>>
            /\ Calls(r) = 0
            /\ pc[r] = "done"
            /\ sent[r] = NoBody
    /\ (cpc \notin {"idle", "commentPost"} /\ AbsentEmptyOrNotString(cbody.text)) =>
            /\ clog = <<Ev("error", "No text provided", 400)>>
            /\ cpayload = <<>>
            /\ cgot = <<>>
            /\ csent = <<>>

C1_Witness ==
    /\ env.key /\ env.url
    /\ pc["r1"] = "done" /\ body["r1"] = JsString(<<>>)
    /\ cpc = "done" /\ cbody.text = JsNumber(<<"7">>)

\* C2: for an image request with a valid topic generateImage makes exactly the one
\* provider call the configuration selects: the SDK call if a key is configured,
\* else the fetchData call if a base URL is configured, else no call and a 500
\* error; never both calls for one request.
C2_OneStrategyByConfig ==
    \A r \in ImageReqs :
        (Entered(r, "generateImage") /\ ValidTopic(r)) =>
            /\ env.key =>
                 CountEv(log[r], "sdk") = 1 /\ CountEv(log[r], "fetchData") = 0
            /\ (~env.key /\ env.url) =>
                 CountEv(log[r], "sdk") = 0 /\ CountEv(log[r], "fetchData") = 1
            /\ (~env.key /\ ~env.url) =>
                 /\ Calls(r) = 0
                 /\ log[r] = <<Ev("enter", "generateImage", 0),
                               Ev("error", "generateImage", 500)>>

C2_Witness ==
    /\ env.key /\ env.url
    /\ pc["r1"] = "done" /\ ValidTopic("r1")
    /\ CountEv(log["r1"], "sdk") = 1
    /\ sent["r1"] # NoBody

DownloadFailed(r) == HasEv(log[r], "downloadFailed")
OwnFileAtTarget(r) ==
    \E f \in disk : f.name = imageName[r] /\ f.content.by = r /\ f.name.prefix = ""

\* C3: after a download error (request error or HTTP error status) the partially
\* written target file is gone, unless the deletion itself failed.
C3_FailedDownloadLeavesNoFile ==
    \A r \in ImageReqs :
        (DownloadFailed(r) /\ ~HasEv(log[r], "unlinkFailed")) => ~OwnFileAtTarget(r)

NonSuccessStatusSeen(r) ==
    \E i \in 1..Len(log[r]) :
        /\ log[r][i].ev \in {"piped", "downloadFailed"}
        /\ log[r][i].code # 0
        /\ log[r][i].code \notin 200..299

\* C4: a download response with any status outside 2xx (3xx included) fails the
\* persistence stage: res.locals.file stays unset, no success response is sent and
\* the request ends with an error handed to next().
C4_NonSuccessStatusFails ==
    \A r \in ImageReqs :
        NonSuccessStatusSeen(r) =>
            /\ locals[r].file = NoName
            /\ sent[r] = NoBody
            /\ pc[r] = "done" => HasEv(log[r], "error")

InFlight(r) == pc[r] \notin {"idle", "done"}

\* C5: two image requests with the same topic that are in flight together are
\* stored under two distinct file names.
C5_ConcurrentNamesDistinct ==
    \A r1 \in ImageReqs, r2 \in ImageReqs :
        (/\ r1 # r2
         /\ body[r1] = body[r2]
         /\ InFlight(r1) /\ InFlight(r2)
         /\ imageName[r1] # NoName /\ imageName[r2] # NoName)
        => imageName[r1] # imageName[r2]

\* C6: a failed thumbnail transform does not change the outcome: no error reaches
\* next(), respondWithImage runs, and the response carries the stored file and the
\* url with thumb absent.
C6_ThumbnailFailureIsSoft ==
    \A r \in ImageReqs :
        HasEv(log[r], "thumbFailed") =>
            /\ ~HasEv(log[r], "error")
            /\ pc[r] \in {"respondWithImage", "done"}
            /\ pc[r] = "done" =>
                 /\ CountEv(log[r], "json") = 1
                 /\ sent[r] = [file |-> imageName[r], thumb |-> NoName,
                               url |-> locals[r].url]
                 /\ imageName[r] # NoName

C6_Witness ==
    /\ HasEv(log["r1"], "thumbFailed")
    /\ pc["r1"] = "done"
    /\ sent["r1"].file = imageName["r1"]
    /\ TruthyStr(sent["r1"].url)

GenerationPassed(r) == CountAt(log[r], "next", "generateImage") > 0
Persisted(r) == CountEv(log[r], "b64write") + CountEv(log[r], "download")
ExactlyOneHandedOver(r) == TruthyStr(locals[r].b64) # TruthyStr(locals[r].url)

\* C7 as stated: every request whose generateImage finished without error and
\* whose saveImage has run executed exactly one of {base64 write, URL download},
\* and generation handed over exactly one of b64 / url.
C7_ExactlyOnePersistence ==
    \A r \in ImageReqs :
        /\ GenerationPassed(r) => ExactlyOneHandedOver(r)
        /\ (GenerationPassed(r) /\ Entered(r, "saveImage")) => Persisted(r) = 1

\* C7 amended: generation hands over exactly one of b64 / url; saveImage never
\* executes both the base64 write and the URL download, and executes exactly one
\* (the write if b64 was handed over, else the download) unless creating the
\* uploads directory threw, when it executes neither and hands the error to
\* next(); an item lacking both url and b64_json is an error and saveImage never
\* runs for it.
C7_ExactlyOneUnlessMkdirFails ==
    \A r \in ImageReqs :
        /\ GenerationPassed(r) => ExactlyOneHandedOver(r)
        /\ Entered(r, "saveImage") =>
             /\ GenerationPassed(r)
             /\ Persisted(r) <= 1
             /\ IF HasEv(log[r], "mkdirFailed")
                THEN Persisted(r) = 0 /\ HasEv(log[r], "error")
                ELSE /\ Persisted(r) = 1
                     /\ HasEv(log[r], "b64write") <=> TruthyStr(locals[r].b64)
        /\ HasEv(log[r], "noImageData") =>
             /\ ~Entered(r, "saveImage")
             /\ HasEv(log[r], "error")
             /\ locals[r] = NoLocals

C7_Witness ==
    /\ HasEv(log["r1"], "b64write") /\ sent["r1"] # NoBody
    /\ HasEv(log["r2"], "download") /\ sent["r2"] # NoBody

ValidText == ~AbsentEmptyOrNotString(cbody.text)
ExpectedPayload ==
    [temperature |-> IF cbody.temperature = <<>> THEN DefaultTemperature
                     ELSE cbody.temperature[1],
     max_tokens |-> IF cbody.max_tokens = <<>> THEN DefaultMaxTokens
                    ELSE cbody.max_tokens[1]]

\* C8 as stated: for every request with a valid text commentPost makes exactly
\* one chat-completion call, carrying temperature and max_tokens as given or
\* defaulted.
C8_ExactlyOneCall ==
    (ValidText /\ cpc \in {"awaitFetch", "done"}) =>
        /\ CountEv(clog, "fetchData") = 1
        /\ cpayload = <<ExpectedPayload>>

\* C8 amended: for every request with a valid text, if OPENAI_API_URL is
\* configured commentPost makes exactly one fetchData call (also when it fails),
\* carrying temperature and max_tokens as given or defaulted to 0.7 and 150; if
\* it is not configured commentPost makes no call and reports the 500 error.
C8_ExactlyOneCallWhenUrlConfigured ==
    (ValidText /\ cpc \in {"awaitFetch", "done"}) =>
        IF env.url
        THEN /\ CountEv(clog, "fetchData") = 1
             /\ cpayload = <<ExpectedPayload>>
        ELSE /\ CountEv(clog, "fetchData") = 0
             /\ clog = <<Ev("error", "No API url found", 500)>>
             /\ cpayload = <<>>

C8_Witness ==
    /\ ValidText /\ cpc = "done" /\ env.url
    /\ cbody.temperature = <<12>> /\ cbody.max_tokens = <<>>
    /\ cgot # <<>> /\ cgot[1].kind = "throws"
    /\ CountEv(clog, "fetchData") = 1

\* the completion has no choices: missing, null or empty
ZeroChoices(completion) ==
    completion.kind # "throws" /\ (completion.choices # "array" \/ completion.items = <<>>)

\* C9: when the provider's response has no choices commentPost hands the 500 'No
\* completion choices returned' error to next() and sends no body.
C9_NoChoicesIs500 ==
    (cgot # <<>> /\ ZeroChoices(cgot[1])) =>
        /\ csent = <<>>
        /\ ~HasEv(clog, "json")
        /\ clog[Len(clog)] = Ev("error", "No completion choices returned", 500)
        /\ CountEv(clog, "error") = 1

C9_Witness ==
    /\ cpc = "done"
    /\ cgot = <<[kind |-> "object", choices |-> "array", items |-> <<>>]>>
    /\ csent = <<>>

StageOrder == <<"generateImage", "saveImage", "makeThumbnail", "respondWithImage">>
EnteredStages(r) == SelectSeq(log[r], LAMBDA e : e.ev = "enter")
Terminal(e) == e.ev \in {"error", "json"}

PipelineSafe(r) ==
    \* the stages are entered in route order, each at most once
    /\ Len(EnteredStages(r)) <= Len(StageOrder)
    /\ \A i \in 1..Len(EnteredStages(r)) : EnteredStages(r)[i].at = StageOrder[i]
    \* at most one terminal outcome, and nothing happens after it
    /\ CountEv(log[r], "error") + CountEv(log[r], "json") <= 1
    /\ \A i \in 1..Len(log[r]) : Terminal(log[r][i]) => i = Len(log[r])
    /\ pc[r] = "done" <=> (log[r] # <<>> /\ Terminal(log[r][Len(log[r])]))
    \* each stage continues at most once
    /\ \A i \in 1..Len(StageOrder) : CountAt(log[r], "next", StageOrder[i]) <= 1
    \* nothing is stored after a failed generation, no thumbnail after a failed save
    /\ CountAt(log[r], "error", "generateImage") > 0 =>
         /\ ~Entered(r, "saveImage")
         /\ \A f \in disk : f.content.by # r
    /\ CountAt(log[r], "error", "saveImage") > 0 =>
         /\ ~Entered(r, "makeThumbnail")
         /\ \A f \in disk : f.content.by = r => f.name.prefix = ""

====
